---- MODULE Spec2Model ----
(***************************************************************************)
(* The training script of bf-vos (src/bfvos/train.py, with the tensor      *)
(* defaults of src/bfvos/model/config.py) as a state machine: main()'s     *)
(* epoch loop, train()'s batch loop with its forward pass, coordinate      *)
(* extraction, gathering, the two loss calls, the optimizer step, logging  *)
(* and checkpointing, and main()'s final save.                             *)
(*                                                                         *)
(* Spatial coordinates are pairs <<x, y>> (dimension 0, dimension 1 of a   *)
(* 2-D mask; dimensions 1 and 2 of a (D, W', H') embedding).  A mask is a  *)
(* function from its grid to {0, 1}.  An embedding vector is not computed: *)
(* the vector the network puts at <<x, y>> of frame f is the token         *)
(* <<f, x, y>>, so a gathered batch says where each of its rows came from. *)
(* A loss value is likewise a token naming the call that produced it, and  *)
(* a floating-point sum is kept as the sequence of its summands in the     *)
(* order they were added (<<>> is 0.0).                                    *)
(***************************************************************************)
EXTENDS Integers, Sequences, FiniteSets, TLC

\* -------------------------------------------------------------- bounds
\* Largest number of batches the data loader yields per epoch.
MaxBatches == 25
\* Largest configured number of epochs.
MaxEpochs == 2
\* Shape of one annotation mask as the data loader delivers it.
annW == 1
annH == 2

\* ------------------------------------------------- program constants
log_interval == 10
checkpoint_interval == 10
device == "cpu"
\* The network's spatial stride: "embedding_a/p/n is of shape (128, w/8, h/8)".
Stride == 8
\* str(time.time()) in the final model's file name: an opaque stamp.
time_time == 0

\* model/config.py: the default tensor type decides where a freshly built
\* model lives.  On a CUDA host line 5 reads torch.cuda.double, which torch
\* does not define, so the import fails there and every run that reaches
\* main() is a run without CUDA.
cuda_is_available == FALSE
DEFAULT_TENSOR_TYPE == IF cuda_is_available THEN "cuda" ELSE "cpu"

\* ------------------------------------------------------------ tensors
Grid(W, H) == (0 .. W - 1) \X (0 .. H - 1)

\* The coordinates of a W x H tensor in row-major order, the order
\* torch.nonzero reports them in.
RowMajor(W, H) == [k \in 1 .. W * H |-> <<(k - 1) \div H, (k - 1) % H>>]

\* torch.nonzero(M): the coordinates of M's nonzero entries, row-major.
nonzero(M, W, H) == SelectSeq(RowMajor(W, H), LAMBDA c : M[c] # 0)

\* M == 0: the elementwise comparison, 1 where M is 0.
eq_zero(M) == [c \in DOMAIN M |-> IF M[c] = 0 THEN 1 ELSE 0]

\* Variant of BgIndices: the comparison with 0 left out.
BgIndicesSame(M, W, H) == nonzero(M, W, H)
\* torch.nonzero(M == 0)
BgIndices(M, W, H) == nonzero(eq_zero(M), W, H)

\* torch.cat([m1, m2], 1) of two W x H masks: W x 2H.
cat_masks(m1, m2, W, H) ==
    [c \in Grid(W, 2 * H) |->
        IF c[2] < H THEN m1[c] ELSE m2[<<c[1], c[2] - H>>]]

\* The network's output for frame f: one vector per embedding position.
EmbDim(n, scale) == (n + scale - 1) \div scale
Embedding(f, W, H) == [c \in Grid(W, H) |-> <<f, c[1], c[2]>>]

\* Variant of cat_embeddings: the two frames in the other order.
cat_embeddings_swapped(e1, e2, W, H) ==
    [c \in Grid(W, 2 * H) |->
        IF c[2] < H THEN e2[c] ELSE e1[<<c[1], c[2] - H>>]]
\* torch.cat([e1, e2], 2) of two (D, W, H) embeddings: (D, W, 2H).
cat_embeddings(e1, e2, W, H) ==
    [c \in Grid(W, 2 * H) |->
        IF c[2] < H THEN e1[c] ELSE e2[<<c[1], c[2] - H>>]]

\* torch.cat([E[:, x, y].unsqueeze(0) for x, y in coords]):
\* E[:, x, y] raises IndexError when <<x, y>> is outside E, and torch.cat
\* raises RuntimeError on the empty list an empty coords leaves.
GatherIndexError(E, coords) == \E i \in 1 .. Len(coords) : coords[i] \notin DOMAIN E
GatherEmptyError(E, coords) == coords = <<>>
GatherRaises(E, coords) == GatherIndexError(E, coords) \/ GatherEmptyError(E, coords)
Gather(E, coords) == [i \in 1 .. Len(coords) |-> E[coords[i]]]

\* ----------------------------------------------------------- the loss
\* loss.MinTripletLoss(alpha)(anchor, positive, negative): zero for an empty
\* argument, otherwise the value of this call.
Zero == <<>>
loss_fn(anchor, positive, negative, call) ==
    IF anchor = <<>> \/ positive = <<>> \/ negative = <<>>
    THEN Zero
    ELSE <<call>>

\* a + b on floating-point values kept as formal sums.
Add(a, b) == a \o b

\* ------------------------------------------------------------ samples
Masks == [Grid(annW, annH) -> {0, 1}]
\* Masks that are uniform away from the origin pixel: all background, all
\* foreground, a single foreground pixel, a single background pixel.
EdgeMasks ==
    {m \in Masks : \A c, d \in Grid(annW, annH) \ {<<0, 0>>} : m[c] = m[d]}
\* sample['annotation'] of one batch: the anchor's mask and the two pooling
\* frames' masks.
TrainSamples == EdgeMasks \X EdgeMasks \X EdgeMasks
StepSamples == (Masks \X EdgeMasks \X EdgeMasks) \cup (EdgeMasks \X Masks \X Masks)

\* -------------------------------------------------------------- state
VARIABLES
    num_epochs,     \* the configured number of epochs
    num_batches,    \* len(data_loader): batches per epoch
    mask_scale,     \* annotation resolution over embedding resolution
    pc,             \* where main()/train() stands
    epoch,          \* main()'s loop variable
    idx,            \* train()'s loop variable
    training,       \* model.training
    model_dev,      \* where the model's parameters live
    params,         \* the parameters: the gradients applied so far, in order
    grad,           \* the parameters' .grad
    agg_fg_loss,
    agg_bg_loss,
    sample,         \* sample['annotation'] of the current batch
    indices,        \* the four coordinate sequences and all_pool_points
    gathered,       \* the four gathered batches
    calls,          \* the arguments of the loss calls of the current batch
    losses,         \* fg_loss, bg_loss, final_loss
    files,          \* the model directory: file name -> what was saved
    log,            \* the running-average records logged so far
    raised,         \* "none", or the operation whose exception ended the run
    events          \* what the current batch has done so far, in order

vars ==
    <<num_epochs, num_batches, mask_scale, pc, epoch, idx, training, model_dev,
      params, grad, agg_fg_loss, agg_bg_loss, sample, indices, gathered, calls,
      losses, files, log, raised, events>>

config == <<num_epochs, num_batches, mask_scale>>
model == <<training, model_dev, params, grad>>
aggs == <<agg_fg_loss, agg_bg_loss>>
locals == <<sample, indices, gathered, calls, losses>>

\* Embedding resolution for this run's annotation resolution.
EmbW == EmbDim(annW, mask_scale)
EmbH == EmbDim(annH, mask_scale)

NoIndices ==
    [fg_anchor |-> <<>>, bg_anchor |-> <<>>, fg_pool |-> <<>>, bg_pool |-> <<>>,
     all_pool_points |-> <<>>]
NoGathered ==
    [fg_embedding_a |-> <<>>, bg_embedding_a |-> <<>>,
     fg_positive_pool |-> <<>>, bg_positive_pool |-> <<>>]
NoLosses == [fg |-> Zero, bg |-> Zero, final |-> Zero]

Init ==
    /\ num_epochs \in 1 .. MaxEpochs
    /\ num_batches \in 0 .. MaxBatches
    /\ mask_scale \in {1, Stride}
    /\ pc = "epoch"
    /\ epoch = 0
    /\ idx = 0
    /\ training = TRUE
    /\ model_dev = DEFAULT_TENSOR_TYPE
    /\ params = <<>>
    /\ grad = Zero
    /\ agg_fg_loss = Zero
    /\ agg_bg_loss = Zero
    /\ sample = <<>>
    /\ indices = NoIndices
    /\ gathered = NoGathered
    /\ calls = <<>>
    /\ losses = NoLosses
    /\ files = <<>>
    /\ log = <<>>
    /\ raised = "none"
    /\ events = <<>>

\* ---------------------------------------------------------- intervals
LogDue(i) == (i + 1) % log_interval = 0
\* Variant of CkptDue: the 0-based index tested.
CkptDueOffByOne(i) == i % checkpoint_interval = 0
CkptDue(i) == (i + 1) % checkpoint_interval = 0

\* "ckpt_epoch_{}_batch_id_{}.pth".format(epoch + 1, idx + 1)
CkptName(e, i) == <<"ckpt_epoch_", e + 1, "_batch_id_", i + 1, ".pth">>
\* "epoch_{}_{}.model".format(num_epochs, str(time.time()).replace(" ", "_"))
FinalName == <<"epoch_", num_epochs, "_", time_time, ".model">>

\* torch.save(model.state_dict(), path): the file holds the parameters.
Saved(p) == [state |-> p, complete |-> TRUE]
Partial == [state |-> <<>>, complete |-> FALSE]
Write(fs, name, content) == (name :> content) @@ fs

\* ------------------------------------------------------------- main()
\* Variant of EpochStart: the accumulators live across epochs.
EpochStartNoReset ==
    /\ pc = "epoch"
    /\ epoch < num_epochs
    /\ idx' = 0
    /\ pc' = "batch"
    /\ UNCHANGED <<config, epoch, model, aggs, locals, files, log, raised, events>>
\* for epoch in range(num_epochs): train(...), whose first lines reset the
\* accumulators.
EpochStart ==
    /\ pc = "epoch"
    /\ epoch < num_epochs
    /\ agg_fg_loss' = Zero
    /\ agg_bg_loss' = Zero
    /\ idx' = 0
    /\ pc' = "batch"
    /\ UNCHANGED <<config, epoch, model, locals, files, log, raised, events>>

EpochsDone ==
    /\ pc = "epoch"
    /\ epoch = num_epochs
    /\ pc' = "final"
    /\ UNCHANGED <<config, epoch, idx, model, aggs, locals, files, log, raised, events>>

\* ------------------------------------------------------------ train()
\* Lines 77-97: the next sample, the forward pass, the pooled embedding and
\* the four coordinate sequences.
Extract(s) ==
    LET all_pool_points == cat_masks(s[2], s[3], annW, annH)
    IN  [fg_anchor |-> nonzero(s[1], annW, annH),
         bg_anchor |-> BgIndices(s[1], annW, annH),
         fg_pool |-> nonzero(all_pool_points, annW, 2 * annH),
         bg_pool |-> BgIndices(all_pool_points, annW, 2 * annH),
         all_pool_points |-> all_pool_points]

FetchForward(S) ==
    /\ pc = "batch"
    /\ idx < num_batches
    /\ \E s \in S :
        /\ sample' = s
        /\ indices' = Extract(s)
    /\ events' = <<"forward">>
    /\ pc' = "gather"
    /\ UNCHANGED <<config, epoch, idx, model, aggs, gathered, calls, losses,
                   files, log, raised>>

\* The data loader is exhausted: train() returns.
EpochEnd ==
    /\ pc = "batch"
    /\ idx = num_batches
    /\ epoch' = epoch + 1
    /\ pc' = "epoch"
    /\ UNCHANGED <<config, idx, model, aggs, locals, files, log, raised, events>>

embedding_a == Embedding(0, EmbW, EmbH)
embedding_pool_points ==
    cat_embeddings(Embedding(1, EmbW, EmbH), Embedding(2, EmbW, EmbH), EmbW, EmbH)

GatherFails ==
    \/ GatherRaises(embedding_a, indices.fg_anchor)
    \/ GatherRaises(embedding_a, indices.bg_anchor)
    \/ GatherRaises(embedding_pool_points, indices.fg_pool)
    \/ GatherRaises(embedding_pool_points, indices.bg_pool)

\* Lines 99-107.
GatherOk ==
    /\ pc = "gather"
    /\ ~GatherFails
    /\ gathered' =
         [fg_embedding_a |-> Gather(embedding_a, indices.fg_anchor),
          bg_embedding_a |-> Gather(embedding_a, indices.bg_anchor),
          fg_positive_pool |-> Gather(embedding_pool_points, indices.fg_pool),
          bg_positive_pool |-> Gather(embedding_pool_points, indices.bg_pool)]
    /\ pc' = "loss"
    /\ UNCHANGED <<config, epoch, idx, model, aggs, sample, indices, calls, losses,
                   files, log, raised, events>>

GatherError ==
    /\ pc = "gather"
    /\ GatherFails
    /\ raised' = "gather"
    /\ pc' = "error"
    /\ UNCHANGED <<config, epoch, idx, model, aggs, locals, files, log, events>>

\* Line 109: fg_negative_pool = bg_positive_pool.
FgNegativePool(g) == g.bg_positive_pool
\* Variant of BgNegativePool: the background's own pool.
BgNegativePoolOwn(g) == g.bg_positive_pool
\* Line 110: bg_negative_pool = fg_positive_pool.
BgNegativePool(g) == g.fg_positive_pool

\* Lines 112-113: one call of loss_fn(anchor, positive pool, negative pool).
LossCall(anchor, positive, negative) ==
    [anchor |-> anchor, positive |-> positive, negative |-> negative]

Loss ==
    /\ pc = "loss"
    /\ LET fg_call == LossCall(gathered.fg_embedding_a, gathered.fg_positive_pool,
                               FgNegativePool(gathered))
           bg_call == LossCall(gathered.bg_embedding_a, gathered.bg_positive_pool,
                               BgNegativePool(gathered))
           fg_loss == loss_fn(fg_call.anchor, fg_call.positive, fg_call.negative,
                              <<"fg", epoch + 1, idx + 1>>)
           bg_loss == loss_fn(bg_call.anchor, bg_call.positive, bg_call.negative,
                              <<"bg", epoch + 1, idx + 1>>)
       IN  /\ calls' = <<fg_call, bg_call>>
           /\ losses' = [fg |-> fg_loss, bg |-> bg_loss, final |-> Add(fg_loss, bg_loss)]
    /\ events' = Append(events, "loss")
    /\ pc' = "zero_grad"
    /\ UNCHANGED <<config, epoch, idx, model, aggs, sample, indices, gathered,
                   files, log, raised>>

\* Line 117: optimizer.zero_grad().  Nothing after line 114 reads the batch's
\* masks, coordinates or gathered tensors again, only the three losses: the
\* model lets go of them here.
ZeroGrad ==
    /\ pc = "zero_grad"
    /\ grad' = Zero
    /\ sample' = <<>>
    /\ indices' = NoIndices
    /\ gathered' = NoGathered
    /\ calls' = <<>>
    /\ events' = Append(events, "zero_grad")
    /\ pc' = "backward"
    /\ UNCHANGED <<config, epoch, idx, training, model_dev, params, aggs, losses,
                   files, log, raised>>

\* Line 118: final_loss.backward() adds final_loss's gradient to .grad.
Backward ==
    /\ pc = "backward"
    /\ grad' = Add(grad, losses.final)
    /\ events' = Append(events, "backward")
    /\ pc' = "step"
    /\ UNCHANGED <<config, epoch, idx, training, model_dev, params, aggs, locals,
                   files, log, raised>>

\* Variant of Step: the gradient applied twice.
StepTwice ==
    /\ pc = "step"
    /\ params' = Append(Append(params, grad), grad)
    /\ events' = Append(events, "step")
    /\ pc' = "log"
    /\ UNCHANGED <<config, epoch, idx, training, model_dev, grad, aggs, locals,
                   files, log, raised>>
\* Line 119: optimizer.step() applies .grad to the parameters.
Step ==
    /\ pc = "step"
    /\ params' = Append(params, grad)
    /\ events' = Append(events, "step")
    /\ pc' = "log"
    /\ UNCHANGED <<config, epoch, idx, training, model_dev, grad, aggs, locals,
                   files, log, raised>>

\* Lines 123-130: the accumulators, and the running averages when due.
Average(sum, n) == [sum |-> sum, n |-> n]
LogRecord(e, i, fg, bg) ==
    [epoch |-> e + 1, batch |-> i + 1,
     fg |-> Average(fg, i + 1), bg |-> Average(bg, i + 1),
     total |-> Average(Add(fg, bg), i + 1)]

Log ==
    /\ pc = "log"
    /\ agg_fg_loss' = Add(agg_fg_loss, losses.fg)
    /\ agg_bg_loss' = Add(agg_bg_loss, losses.bg)
    /\ IF LogDue(idx)
       THEN /\ log' = Append(log, LogRecord(epoch, idx, agg_fg_loss', agg_bg_loss'))
            /\ events' = Append(events, "log")
       ELSE UNCHANGED <<log, events>>
    /\ pc' = "ckpt"
    /\ UNCHANGED <<config, epoch, idx, model, locals, files, raised>>

\* Line 132, not due: on to the next batch.
CkptSkip ==
    /\ pc = "ckpt"
    /\ ~CkptDue(idx)
    /\ idx' = idx + 1
    /\ pc' = "batch"
    /\ UNCHANGED <<config, epoch, model, aggs, locals, files, log, raised, events>>

\* Line 133: model.eval() ...
CkptEval ==
    /\ pc = "ckpt"
    /\ CkptDue(idx)
    /\ training' = FALSE
    /\ events' = Append(events, "eval")
    /\ pc' = "ckpt_cpu"
    /\ UNCHANGED <<config, epoch, idx, model_dev, params, grad, aggs, locals,
                   files, log, raised>>

\* ... .cpu()
CkptCpu ==
    /\ pc = "ckpt_cpu"
    /\ model_dev' = "cpu"
    /\ events' = Append(events, "cpu")
    /\ pc' = "ckpt_save"
    /\ UNCHANGED <<config, epoch, idx, training, params, grad, aggs, locals,
                   files, log, raised>>

\* Lines 134-137.
CkptSave ==
    /\ pc = "ckpt_save"
    /\ files' = Write(files, CkptName(epoch, idx), Saved(params))
    /\ events' = Append(events, "save")
    /\ pc' = "ckpt_to"
    /\ UNCHANGED <<config, epoch, idx, model, aggs, locals, log, raised>>

\* Line 138: model.to(device) ...
CkptToDevice ==
    /\ pc = "ckpt_to"
    /\ model_dev' = device
    /\ events' = Append(events, "to_device")
    /\ pc' = "ckpt_train"
    /\ UNCHANGED <<config, epoch, idx, training, params, grad, aggs, locals,
                   files, log, raised>>

\* Variant of CkptTrain: the model left in evaluation mode.
CkptTrainForgotten ==
    /\ pc = "ckpt_train"
    /\ events' = Append(events, "train")
    /\ idx' = idx + 1
    /\ pc' = "batch"
    /\ UNCHANGED <<config, epoch, model, aggs, locals, files, log, raised>>
\* ... .train(), and on to the next batch.
CkptTrain ==
    /\ pc = "ckpt_train"
    /\ training' = TRUE
    /\ events' = Append(events, "train")
    /\ idx' = idx + 1
    /\ pc' = "batch"
    /\ UNCHANGED <<config, epoch, model_dev, params, grad, aggs, locals,
                   files, log, raised>>

\* --------------------------------------------------- main(), the end
\* Line 67: model.eval() ...
FinalEval ==
    /\ pc = "final"
    /\ training' = FALSE
    /\ pc' = "final_cpu"
    /\ UNCHANGED <<config, epoch, idx, model_dev, params, grad, aggs, locals,
                   files, log, raised, events>>

\* ... .cpu()
FinalCpu ==
    /\ pc = "final_cpu"
    /\ model_dev' = "cpu"
    /\ pc' = "final_save"
    /\ UNCHANGED <<config, epoch, idx, training, params, grad, aggs, locals,
                   files, log, raised, events>>

\* Lines 68-71.
FinalSave ==
    /\ pc = "final_save"
    /\ files' = Write(files, FinalName, Saved(params))
    /\ pc' = "done"
    /\ UNCHANGED <<config, epoch, idx, model, aggs, locals, log, raised, events>>

\* --------------------------------------------------------- exceptions
\* The operations that call into a collaborator, which may raise: the data
\* loader and the forward pass, the loss, the backward pass, the optimizer
\* step, torch.save.
CanRaise ==
    \/ pc = "batch" /\ idx < num_batches
    \/ pc \in {"loss", "backward", "step", "ckpt_save", "final_save"}

\* The file a torch.save at this place writes.
SaveTarget == IF pc = "ckpt_save" THEN CkptName(epoch, idx) ELSE FinalName

\* Variant of Fail: the loop catches the exception and goes on.
FailSwallowed ==
    /\ CanRaise
    /\ pc \in {"loss", "backward", "step"}
    /\ raised' = pc
    /\ idx' = idx + 1
    /\ pc' = "batch"
    /\ UNCHANGED <<config, epoch, model, aggs, locals, files, log, events>>
\* Neither train() nor main() has a try: the exception ends the run, and a
\* torch.save that fails may leave the file it had begun.
Fail ==
    /\ CanRaise
    /\ raised' = pc
    /\ pc' = "error"
    /\ \/ files' = files
       \/ /\ pc \in {"ckpt_save", "final_save"}
          /\ files' = Write(files, SaveTarget, Partial)
    /\ UNCHANGED <<config, epoch, idx, model, aggs, locals, log, events>>

\* ------------------------------------------------------ specifications
Next ==
    \/ EpochStart
    \/ EpochsDone
    \/ FetchForward(TrainSamples)
    \/ EpochEnd
    \/ GatherOk
    \/ GatherError
    \/ Loss
    \/ ZeroGrad
    \/ Backward
    \/ Step
    \/ Log
    \/ CkptSkip
    \/ CkptEval
    \/ CkptCpu
    \/ CkptSave
    \/ CkptToDevice
    \/ CkptTrain
    \/ FinalEval
    \/ FinalCpu
    \/ FinalSave
    \/ Fail

\* A whole run of the script.
Spec == Init /\ [][Next]_vars

\* The first training step, up to its loss, over every annotation mask.
InitStep == Init /\ num_epochs = 1 /\ num_batches = 1
NextStep ==
    \/ EpochStart
    \/ FetchForward(StepSamples)
    \/ GatherOk
    \/ GatherError
    \/ Loss
SpecStep == InitStep /\ [][NextStep]_vars

\* ============================================================== claims
\* Where the run stands, or stood when an exception ended it.
At == IF pc = "error" THEN raised ELSE pc

\* The batches of the run: <<e, i>> is batch i of epoch e, both from 0.
Batches == (0 .. num_epochs - 1) \X (0 .. num_batches - 1)
InTrain == At \notin {"epoch", "final", "final_cpu", "final_save", "done"}
\* Batch <<e, i>> is at or past one of the places in `reached`, or over.
Past(b, reached) ==
    \/ b[1] < epoch
    \/ /\ b[1] = epoch
       /\ InTrain
       /\ \/ b[2] < idx
          \/ b[2] = idx /\ At \in reached

IsPrefix(s, t) == Len(s) <= Len(t) /\ s = SubSeq(t, 1, Len(s))
Range(s) == {s[i] : i \in 1 .. Len(s)}
NoDuplicates(s) == Cardinality(Range(s)) = Len(s)

\* ------------------------------------------------------------------ C1
CkptWritten == {b \in Batches : CkptDue(b[2]) /\ Past(b, {"ckpt_to", "ckpt_train"})}

\* C1: in a run without an error, the files in the model directory are at
\* every moment exactly the checkpoints of the batches done so far whose
\* 1-based index is a multiple of checkpoint_interval, one file per such
\* batch, named ckpt_epoch_<epoch>_batch_id_<batch>.pth, plus, once main()
\* is done, the one final model: num_epochs * (num_batches \div
\* checkpoint_interval) + 1 files, and for one epoch of 25 batches exactly
\* the checkpoints after batch 10 and batch 20 and the final model.
C1_CheckpointCadence ==
    raised = "none" =>
        /\ DOMAIN files =
             {CkptName(b[1], b[2]) : b \in CkptWritten}
               \cup (IF pc = "done" THEN {FinalName} ELSE {})
        /\ Cardinality({CkptName(b[1], b[2]) : b \in CkptWritten})
             = Cardinality(CkptWritten)
        /\ FinalName \notin {CkptName(b[1], b[2]) : b \in Batches}
        /\ \A n \in DOMAIN files : files[n].complete
        /\ pc = "done" =>
             /\ Cardinality(DOMAIN files)
                  = num_epochs * (num_batches \div checkpoint_interval) + 1
             /\ (num_epochs = 1 /\ num_batches = 25) =>
                  DOMAIN files =
                    {<<"ckpt_epoch_", 1, "_batch_id_", 10, ".pth">>,
                     <<"ckpt_epoch_", 1, "_batch_id_", 20, ".pth">>,
                     <<"epoch_", 1, "_", time_time, ".model">>}

C1_Witness ==
    /\ pc = "done"
    /\ raised = "none"
    /\ num_epochs = 1
    /\ num_batches = 25
    /\ Cardinality(DOMAIN files) = 3

\* ------------------------------------------------------------------ C2
HasEmptySet ==
    \/ indices.fg_anchor = <<>>
    \/ indices.bg_anchor = <<>>
    \/ indices.fg_pool = <<>>
    \/ indices.bg_pool = <<>>

AllInBounds ==
    /\ Range(indices.fg_anchor) \cup Range(indices.bg_anchor) \subseteq DOMAIN embedding_a
    /\ Range(indices.fg_pool) \cup Range(indices.bg_pool)
         \subseteq DOMAIN embedding_pool_points

\* C2: a batch whose anchor mask or pooled mask is all foreground or all
\* background (an empty coordinate sequence, every coordinate within the
\* embeddings) does not fail in the gathering: its step goes on to the loss,
\* the backward pass and the optimizer step.
C2_EmptySetDoesNotFail ==
    (At = "gather" /\ HasEmptySet /\ AllInBounds) => raised = "none"

\* ------------------------------------------------------------------ C3
\* C3: every coordinate train() gathers at lies within the tensor it
\* indexes: the anchor coordinates within embedding_a, the pool coordinates
\* within the pooled embedding, whatever the mask.
C3_CoordinatesInBounds ==
    At = "gather" => AllInBounds

\* ------------------------------------------------------------------ C4
\* fg and bg split the W x H grid of M: no coordinate twice, none in both,
\* none left out, fg where M is nonzero and bg where M is 0.
Partitions(fg, bg, M, W, H) ==
    /\ NoDuplicates(fg)
    /\ NoDuplicates(bg)
    /\ Range(fg) \cap Range(bg) = {}
    /\ Range(fg) \cup Range(bg) = Grid(W, H)
    /\ Range(fg) = {c \in Grid(W, H) : M[c] # 0}
    /\ Range(bg) = {c \in Grid(W, H) : M[c] = 0}

Diagonal2x2 == [c \in Grid(2, 2) |-> IF c[1] = c[2] THEN 1 ELSE 0]

\* C4: once a batch's coordinates are extracted, the foreground and the
\* background sequence of the anchor mask partition the anchor mask's grid,
\* and those of the pool partition the grid of the two pooling masks laid
\* side by side; [[1,0],[0,1]] gives foreground (0,0),(1,1) and background
\* (0,1),(1,0).
C4_Partition ==
    /\ At \in {"gather", "loss", "zero_grad"} =>
         /\ Partitions(indices.fg_anchor, indices.bg_anchor, sample[1], annW, annH)
         /\ Partitions(indices.fg_pool, indices.bg_pool,
                       [c \in Grid(annW, 2 * annH) |->
                          IF c[2] < annH THEN sample[2][c]
                          ELSE sample[3][<<c[1], c[2] - annH>>]],
                       annW, 2 * annH)
    /\ nonzero(Diagonal2x2, 2, 2) = <<(<<0, 0>>), (<<1, 1>>)>>
    /\ BgIndices(Diagonal2x2, 2, 2) = <<(<<0, 1>>), (<<1, 0>>)>>

C4_Witness ==
    /\ pc = "gather"
    /\ indices.fg_anchor # <<>>
    /\ indices.bg_anchor # <<>>
    /\ Len(indices.fg_pool) >= 2
    /\ Len(indices.bg_pool) >= 2

\* ------------------------------------------------------------------ C5
\* C5: when a step has computed its loss, loss_fn was called exactly twice
\* on the batch's gathered tensors: first with the foreground anchors, the
\* foreground pool as positive and the background pool as negative, then
\* with the background anchors, the background pool as positive and the
\* foreground pool as negative, each pool of the second call being the
\* batch the first call had in the other role; final_loss is the sum of
\* the two results.
C5_SwappedPools ==
    At = "zero_grad" =>
        LET fg_pool == Gather(embedding_pool_points, indices.fg_pool)
            bg_pool == Gather(embedding_pool_points, indices.bg_pool)
        IN  /\ Len(calls) = 2
            /\ calls[1] = LossCall(Gather(embedding_a, indices.fg_anchor),
                                   fg_pool, bg_pool)
            /\ calls[2] = LossCall(Gather(embedding_a, indices.bg_anchor),
                                   bg_pool, fg_pool)
            /\ calls[2].negative = calls[1].positive
            /\ calls[2].positive = calls[1].negative
            /\ losses.fg = <<(<<"fg", epoch + 1, idx + 1>>)>>
            /\ losses.bg = <<(<<"bg", epoch + 1, idx + 1>>)>>
            /\ losses.final = Add(losses.fg, losses.bg)

C5_Witness ==
    /\ pc = "zero_grad"
    /\ Len(calls) = 2
    /\ calls[1].positive # calls[1].negative
    /\ calls[1].anchor # calls[2].anchor

\* ------------------------------------------------------------------ C6
\* The pooling frame (1 or 2) a coordinate of the pooled mask came from, and
\* the pixel of that frame it labels.
PoolFrame(c) == IF c[2] < annH THEN 1 ELSE 2
PoolPixel(c) == IF c[2] < annH THEN c ELSE <<c[1], c[2] - annH>>

\* Row i of the gathered batch is the network's vector for the frame and the
\* pixel that coords[i] labels.
GathersItsPixel(batch, coords) ==
    /\ Len(batch) = Len(coords)
    /\ \A i \in 1 .. Len(coords) :
         batch[i] = <<PoolFrame(coords[i]), PoolPixel(coords[i])[1],
                      PoolPixel(coords[i])[2]>>

OneZero == [c \in Grid(1, 2) |-> IF c[2] = 0 THEN 1 ELSE 0]
ZeroOne == [c \in Grid(1, 2) |-> IF c[2] = 1 THEN 1 ELSE 0]

\* C6: when a step has gathered its pools, the pooled mask holds pooling
\* frame 1's mask and then pooling frame 2's along dimension 1, and every
\* row of the foreground and of the background pool is the embedding vector
\* of the frame its coordinate came from, at the pixel that coordinate
\* labels; masks [1,0] and [0,1] give the pooled mask [1,0,0,1] with
\* foreground (0,0),(0,3) and background (0,1),(0,2).
C6_PoolAlignment ==
    /\ At = "loss" =>
         /\ \A c \in Grid(annW, 2 * annH) :
              indices.all_pool_points[c] = sample[PoolFrame(c) + 1][PoolPixel(c)]
         /\ GathersItsPixel(gathered.fg_positive_pool, indices.fg_pool)
         /\ GathersItsPixel(gathered.bg_positive_pool, indices.bg_pool)
    /\ LET combined == cat_masks(OneZero, ZeroOne, 1, 2)
       IN  /\ combined = [c \in Grid(1, 4) |-> IF c[2] \in {0, 3} THEN 1 ELSE 0]
           /\ nonzero(combined, 1, 4) = <<(<<0, 0>>), (<<0, 3>>)>>
           /\ BgIndices(combined, 1, 4) = <<(<<0, 1>>), (<<0, 2>>)>>

C6_Witness ==
    /\ pc = "loss"
    /\ \E i \in 1 .. Len(indices.fg_pool) : PoolFrame(indices.fg_pool[i]) = 1
    /\ \E i \in 1 .. Len(indices.fg_pool) : PoolFrame(indices.fg_pool[i]) = 2
    /\ \E i \in 1 .. Len(indices.bg_pool) : PoolFrame(indices.bg_pool[i]) = 2

\* ------------------------------------------------------------------ C7
\* C7: once an operation has raised, the run is over: it stands at the
\* error, nothing changes any more (no later batch, no later epoch), the
\* final model is not written when the error came from a training step, and
\* no step, the failing one included, removes or changes a file that was
\* already written.
C7_ErrorsAreFatal ==
    /\ [](raised # "none" =>
            /\ pc = "error"
            /\ raised # "final_save" => FinalName \notin DOMAIN files)
    /\ [][/\ raised # "none" => UNCHANGED vars
          /\ \A n \in DOMAIN files : n \in DOMAIN files' /\ files'[n] = files[n]]_vars

C7_Witness ==
    /\ pc = "error"
    /\ raised = "ckpt_save"
    /\ epoch = 1
    /\ Cardinality(DOMAIN files) >= 2
    /\ \E n \in DOMAIN files : ~files[n].complete

\* ------------------------------------------------------------------ C8
CkptEvents == <<"eval", "cpu", "save", "to_device", "train">>
\* How many of a checkpoint's five operations are done at each place.
CkptProgress ==
    CASE pc = "ckpt_cpu" -> 1
      [] pc = "ckpt_save" -> 2
      [] pc = "ckpt_to" -> 3
      [] pc = "ckpt_train" -> 4
      [] OTHER -> 5

\* C8: the forward pass and everything up to the optimizer step run with
\* the model in training mode on the configured device; both saves run with
\* the model in evaluation mode on the CPU; and a checkpoint does eval, cpu,
\* save, to(device), train in this order, so that the next batch starts in
\* training mode on the device.
C8_Modes ==
    /\ (pc = "batch" /\ idx < num_batches) \/ pc \in {"gather", "loss", "zero_grad", "backward", "step"}
         => training /\ model_dev = device
    /\ pc \in {"ckpt_save", "final_save"} => ~training /\ model_dev = "cpu"
    /\ pc \in {"ckpt_cpu", "ckpt_save", "ckpt_to", "ckpt_train"} =>
         /\ ~training
         /\ Len(events) >= CkptProgress
         /\ SubSeq(events, Len(events) - CkptProgress + 1, Len(events))
              = SubSeq(CkptEvents, 1, CkptProgress)
         /\ (CkptName(epoch, idx) \in DOMAIN files) = (pc \in {"ckpt_to", "ckpt_train"})
         /\ pc = "ckpt_train" => model_dev = device
    /\ (pc = "batch" /\ idx > 0 /\ CkptDue(idx - 1)) =>
         /\ SubSeq(events, Len(events) - 4, Len(events)) = CkptEvents
         /\ training
         /\ model_dev = device

C8_Witness ==
    /\ pc = "gather"
    /\ idx > 0
    /\ CkptDue(idx - 1)
    /\ training
    /\ CkptName(epoch, idx - 1) \in DOMAIN files

\* ------------------------------------------------------------------ C9
\* What one whole iteration on batch i does, in order.
ExpectedEvents(i) ==
    <<"forward", "loss", "zero_grad", "backward", "step">>
      \o (IF LogDue(i) THEN <<"log">> ELSE <<>>)
      \o (IF CkptDue(i) THEN CkptEvents ELSE <<>>)

\* The gradient of batch i of epoch e (both from 1): that of its final_loss.
FinalLossOf(e, i) == <<(<<"fg", e, i>>), (<<"bg", e, i>>)>>
\* The parameters after the first n optimizer steps of the run.
ParamsAfter(n) ==
    [j \in 1 .. n |->
       FinalLossOf(((j - 1) \div num_batches) + 1, ((j - 1) % num_batches) + 1)]

\* C9: what a batch has done so far is always a beginning of forward, loss,
\* zero_grad, backward, step, then the log and the checkpoint when due, each
\* once; an iteration ends only with the whole list done and the next
\* forward pass starts only between iterations; the parameters change only
\* in the optimizer step, by the gradient of this batch's final_loss alone;
\* and the checkpoint written after batch n of an epoch holds the
\* parameters after the n steps of that epoch and every step of the epochs
\* before it.
C9_StepOrder ==
    /\ [](/\ (InTrain /\ At # "batch") => IsPrefix(events, ExpectedEvents(idx))
          /\ \A b \in Batches :
               (CkptName(b[1], b[2]) \in DOMAIN files
                  /\ files[CkptName(b[1], b[2])].complete) =>
                 files[CkptName(b[1], b[2])].state
                   = ParamsAfter(b[1] * num_batches + b[2] + 1))
    /\ [][/\ idx' = idx + 1 => events' = ExpectedEvents(idx)
          /\ (events' # events /\ events' = <<"forward">>) => pc = "batch"
          /\ params' # params =>
               /\ pc = "step"
               /\ params' = Append(params, FinalLossOf(epoch + 1, idx + 1))]_vars

C9_Witness ==
    /\ raised = "none"
    /\ epoch = 1
    /\ pc = "batch"
    /\ idx = 20
    /\ CkptName(1, 19) \in DOMAIN files
    /\ Len(files[CkptName(1, 19)].state) = num_batches + 20
    /\ events = ExpectedEvents(19)

\* ----------------------------------------------------------------- C10
\* The batches whose running averages are due and whose logging is done.
Logged ==
    {b \in Batches :
       LogDue(b[2])
         /\ Past(b, {"ckpt", "ckpt_cpu", "ckpt_save", "ckpt_to", "ckpt_train"})}

\* The losses of batches 1 .. n of epoch e, summed from 0 in batch order.
SumOfLosses(kind, e, n) == [i \in 1 .. n |-> <<kind, e, i>>]

====
